---- MODULE Spec2Model ----
(***************************************************************************)
(* Model of plugins/tenet/trace/analysis.py (class TraceAnalysis).         *)
(*                                                                         *)
(* The object is built from a disassembler context (the ordered list of    *)
(* instruction addresses of the binary) and a trace (the table ip_addrs of *)
(* executed addresses and the list of segments, whose ips are 0-based      *)
(* indexes into that table).  Construction runs _analyze_aslr and then     *)
(* _analyze_unmapped; afterwards rebase_pointer and get_prev_mapped_idx    *)
(* answer queries.                                                         *)
(***************************************************************************)
EXTENDS Integers, Sequences, FiniteSets, TLC

VARIABLES
    instruction_addresses,  \* dctx.get_instruction_addresses()
    ip_addrs,               \* trace.ip_addrs
    segments,               \* trace.segments: records base_idx, ips, length
    remapped_regions,       \* self._remapped_regions: sequence of <<m1, m2>>
    unmapped_entry_points,  \* self._unmapped_entry_points
    pc,                     \* "new" (not constructed), "ready", "failed"
    err,                    \* exception that left __init__, or "none"
    calls,                  \* analysis methods entered by _analyze, in order
    top_hit,                \* hits[0] = <<count, slide>> of _analyze_aslr, <<>> if none
    op,                     \* last public method called, "none" before any
    arg,                    \* its argument
    result                  \* its return value

vars == <<instruction_addresses, ip_addrs, segments, remapped_regions,
          unmapped_entry_points, pc, err, calls, top_hit, op, arg, result>>

-----------------------------------------------------------------------------
(* Bounds of the model *)

MaxBin == 3      \* most instruction addresses of the binary
MaxIps == 3      \* most entries of trace.ip_addrs
MaxTrace == 5    \* most executed instructions over all segments

(* Program constant: address & 0xFFF *)
PageMask == 4095

\* 0x1000, 0x1004, 0x2000, 0x3000
Pool == {4096, 4100, 8192, 12288}

\* 0x1000, 0x2000
ScanPool == {4096, 8192}

\* Scenario A: binary 0x1000, 0x1004, 0x1008; trace 0x5000, 0x5004, 0x5008, 0x5004
ScenarioBin == <<4096, 4100, 4104>>
ScenarioIps == <<20480, 20484, 20488, 20484>>

-----------------------------------------------------------------------------
(* Generic helpers *)

Range(s) == {s[i] : i \in 1..Len(s)}

SeqsUpTo(S, n) == UNION {[1..k -> S] : k \in 0..n}

SetMax(S) == CHOOSE x \in S : \A y \in S : y <= x
SetMin(S) == CHOOSE x \in S : \A y \in S : x <= y

Ascending(s) == \A i \in 1..(Len(s) - 1) : s[i] < s[i + 1]

RECURSIVE Concat(_)
Concat(ss) == IF ss = <<>> THEN <<>> ELSE Head(ss) \o Concat(Tail(ss))

\* the distinct elements of s in order of first occurrence (dict insertion order)
RECURSIVE Distinct(_)
Distinct(s) ==
    IF s = <<>> THEN <<>>
    ELSE LET rest == Distinct(SubSeq(s, 1, Len(s) - 1))
             last == s[Len(s)]
         IN IF last \in Range(rest) THEN rest ELSE Append(rest, last)

-----------------------------------------------------------------------------
(* _analyze_aslr *)

\* bits = address & 0xFFF
LowBits(address) == address % (PageMask + 1)

\* the keys of binary_buckets in insertion order
binary_bucket_keys(addresses) ==
    Distinct([i \in 1..Len(addresses) |-> LowBits(addresses[i])])

\* binary_buckets[bits]: the binary addresses with these low bits, in order
binary_buckets(addresses) ==
    [bits \in {LowBits(a) : a \in Range(addresses)} |->
        SelectSeq(addresses, LAMBDA a : LowBits(a) = bits)]

\* a slip: every executed address is put in every bucket of the binary
trace_buckets_unfiltered(addresses, trace_addresses) ==
    [bits \in {LowBits(a) : a \in Range(addresses)} |-> trace_addresses]

\* trace_buckets[bits] for the keys of binary_buckets (executed addresses whose
\* bits are no key are skipped; a key without executed address reads as [])
trace_buckets(addresses, trace_addresses) ==
    [bits \in {LowBits(a) : a \in Range(addresses)} |->
        SelectSeq(trace_addresses, LAMBDA e : LowBits(e) = bits)]

\* the (distance, executed_address) pairs appended to slide_buckets, in the
\* order of the three nested loops
slide_votes(addresses, trace_addresses) ==
    LET keys == binary_bucket_keys(addresses)
        bb == binary_buckets(addresses)
        tb == trace_buckets(addresses, trace_addresses)
        for_address(executed, bucket) ==
            [j \in 1..Len(bucket) |-> <<bucket[j] - executed, executed>>]
        for_bits(bits) ==
            Concat([i \in 1..Len(tb[bits]) |-> for_address(tb[bits][i], bb[bits])])
    IN Concat([k \in 1..Len(keys) |-> for_bits(keys[k])])

\* slide_buckets[distance]: the executed addresses that voted for distance
slide_buckets(votes) ==
    [distance \in {v[1] : v \in Range(votes)} |->
        LET mine == SelectSeq(votes, LAMBDA v : v[1] = distance)
        IN [i \in 1..Len(mine) |-> mine[i][2]]]

\* a slip: an executed address is counted once however often it voted
hit_count_distinct(executed_addresses) == Cardinality(Range(executed_addresses))

\* len(executed_addresses)
hit_count(executed_addresses) == Len(executed_addresses)

\* hits before sorting: (len(executed_addresses), slide) per key of slide_buckets
hits(votes) ==
    LET sb == slide_buckets(votes)
        slides == Distinct([i \in 1..Len(votes) |-> votes[i][1]])
    IN [i \in 1..Len(slides) |-> <<hit_count(sb[slides[i]]), slides[i]>>]

\* a slip: among equal counts the smaller slide sorts first
hit_less_smaller_slide(x, y) ==
    x[1] < y[1] \/ (x[1] = y[1] /\ x[2] > y[2])

\* Python's order on the (count, slide) tuples that hits.sort compares
hit_less(x, y) ==
    x[1] < y[1] \/ (x[1] = y[1] /\ x[2] < y[2])

\* hits.sort(reverse=True)
RECURSIVE sort_reverse(_)
sort_reverse(h) ==
    IF h = <<>> THEN <<>>
    ELSE LET i == CHOOSE i \in 1..Len(h) : \A j \in 1..Len(h) : ~hit_less(h[i], h[j])
         IN <<h[i]>> \o sort_reverse(SubSeq(h, 1, i - 1) \o SubSeq(h, i + 1, Len(h)))

\* m1 = [instuction_addresses[0], instuction_addresses[-1]]
region_m1(addresses) == <<addresses[1], addresses[Len(addresses)]>>

\* m2 from m1 and the slide, by the sign of the slide
region_m2(m1, slide) ==
    IF slide < 0 THEN <<m1[1] - slide, m1[2] - slide>>
    ELSE <<m1[1] + slide, m1[2] + slide>>

\* the outcome of _analyze_aslr: hits[0] raises IndexError when hits is empty,
\* before any region is appended
analyze_aslr(addresses, trace_addresses) ==
    LET sorted == sort_reverse(hits(slide_votes(addresses, trace_addresses)))
    IN IF sorted = <<>>
       THEN [raised |-> "IndexError", top |-> <<>>, regions |-> <<>>]
       ELSE LET m1 == region_m1(addresses)
                m2 == region_m2(m1, sorted[1][2])
            IN [raised |-> "none", top |-> sorted[1], regions |-> <<<<m1, m2>>>>]

-----------------------------------------------------------------------------
(* _analyze_unmapped *)

\* mapped_ips: the 0-based indexes of ip_addrs whose address is in [lower, upper]
mapped_ips(ips, lower_mapped, upper_mapped) ==
    {i \in 0..(Len(ips) - 1) :
        lower_mapped <= ips[i + 1] /\ ips[i + 1] <= upper_mapped}

\* a slip: last_good_idx is not cleared once it has been saved
scan_step_no_reset(st, mapped, seg_base, relative_idx, compressed_ip) ==
    IF compressed_ip \notin mapped
    THEN IF st.last_good_idx # 0
         THEN [st EXCEPT !.unmapped_entries = Append(@, st.last_good_idx)]
         ELSE st
    ELSE [st EXCEPT !.last_good_idx = seg_base + relative_idx]

\* a slip: the segment's base is left out of the saved index
scan_step_no_base(st, mapped, seg_base, relative_idx, compressed_ip) ==
    IF compressed_ip \notin mapped
    THEN IF st.last_good_idx # 0
         THEN [last_good_idx |-> 0,
               unmapped_entries |-> Append(st.unmapped_entries, st.last_good_idx)]
         ELSE st
    ELSE [st EXCEPT !.last_good_idx = relative_idx]

\* the body of the inner loop, for one executed instruction
scan_step(st, mapped, seg_base, relative_idx, compressed_ip) ==
    IF compressed_ip \notin mapped
    THEN IF st.last_good_idx # 0
         THEN [last_good_idx |-> 0,
               unmapped_entries |-> Append(st.unmapped_entries, st.last_good_idx)]
         ELSE st
    ELSE [st EXCEPT !.last_good_idx = seg_base + relative_idx]

\* for relative_idx in range(relative_idx, seg.length)
RECURSIVE scan_segment(_, _, _, _)
scan_segment(st, mapped, seg, relative_idx) ==
    IF relative_idx >= seg.length THEN st
    ELSE scan_segment(
            scan_step(st, mapped, seg.base_idx, relative_idx, seg.ips[relative_idx + 1]),
            mapped, seg, relative_idx + 1)

\* for seg in trace.segments
RECURSIVE scan_segments(_, _, _)
scan_segments(st, mapped, segs) ==
    IF segs = <<>> THEN st
    ELSE scan_segments(scan_segment(st, mapped, Head(segs), 0), mapped, Tail(segs))

\* the list _analyze_unmapped stores in _unmapped_entry_points
analyze_unmapped(segs, ips, regions) ==
    LET lower_mapped == regions[1][2][1]
        upper_mapped == regions[1][2][2]
        mapped == mapped_ips(ips, lower_mapped, upper_mapped)
    IN scan_segments([last_good_idx |-> 0, unmapped_entries |-> <<>>],
                     mapped, segs).unmapped_entries

-----------------------------------------------------------------------------
(* Public queries *)

\* a slip: an address outside m1 is taken to be inside m2
rebase_from_no_m2_test(regions, i, address) ==
    IF i > Len(regions) THEN address
    ELSE LET m1 == regions[i][1]
             m2 == regions[i][2]
         IN IF m1[1] <= address /\ address <= m1[2]
            THEN address + (m2[1] - m1[1])
            ELSE address - (m2[1] - m1[1])

\* the loop of rebase_pointer from the i-th region on
RECURSIVE rebase_from(_, _, _)
rebase_from(regions, i, address) ==
    IF i > Len(regions) THEN address
    ELSE LET m1 == regions[i][1]
             m2 == regions[i][2]
         IN IF m1[1] <= address /\ address <= m1[2]
            THEN address + (m2[1] - m1[1])
            ELSE IF m2[1] <= address /\ address <= m2[2]
                 THEN address - (m2[1] - m1[1])
                 ELSE rebase_from(regions, i + 1, address)

rebase_pointer(regions, address) == rebase_from(regions, 1, address)

\* bisect.bisect_right(a, x) with 0-based lo, hi
RECURSIVE bisect_right(_, _, _, _)
bisect_right(a, x, lo, hi) ==
    IF lo < hi
    THEN LET mid == (lo + hi) \div 2
         IN IF x < a[mid + 1] THEN bisect_right(a, x, lo, mid)
            ELSE bisect_right(a, x, mid + 1, hi)
    ELSE lo

\* a[index] of a Python list: a negative index counts from the end, and an
\* index outside -len..len-1 raises IndexError, which the caller turns into -1
get_prev_mapped_idx(entries, idx) ==
    LET index == bisect_right(entries, idx, 0, Len(entries)) - 1
    IN IF 0 <= index /\ index < Len(entries) THEN entries[index + 1]
       ELSE IF index < 0 /\ -index <= Len(entries) THEN entries[Len(entries) + index + 1]
       ELSE -1

-----------------------------------------------------------------------------
(* Inputs *)

\* ascending, duplicate-free address lists of the binary, at most n long
BinSeqs(S, n) == {s \in SeqsUpTo(S, n) : Ascending(s)}

\* one segment that executes every entry of the table once, in order
one_segment(table) ==
    <<[base_idx |-> 0, ips |-> [i \in 1..Len(table) |-> i - 1], length |-> Len(table)]>>

\* two segments over the executed sequence c, cut after k instructions, the
\* second with base_idx base2
two_segments(c, k, base2) ==
    <<[base_idx |-> 0, ips |-> SubSeq(c, 1, k), length |-> k],
      [base_idx |-> base2, ips |-> SubSeq(c, k + 1, Len(c)), length |-> Len(c) - k]>>

\* many binaries and tables, each with a single segment
AslrInputs ==
    {[bin |-> b, ips |-> t, segs |-> one_segment(t)] :
        b \in BinSeqs(Pool, MaxBin), t \in SeqsUpTo(Pool, MaxIps)}

\* one binary and few tables, every execution order and every cut into two
\* segments, contiguous (base2 = k) or not
ScanInputs ==
    UNION {
        {[bin |-> b, ips |-> t, segs |-> two_segments(c, cut[1], cut[2])] :
            cut \in {kb \in (0..Len(c)) \X (0..(Len(c) + 1)) :
                        kb[2] \in {kb[1] - 1, kb[1], kb[1] + 1}}} :
        <<b, t, c>> \in {<<SetMin(ScanPool)>>}
                        \X [1..2 -> ScanPool] \X SeqsUpTo({0, 1}, MaxTrace)}

\* Scenario A, with a single segment
ScenarioInputs ==
    {[bin |-> ScenarioBin, ips |-> ScenarioIps, segs |-> one_segment(ScenarioIps)]}

Inputs == AslrInputs \cup ScanInputs \cup ScenarioInputs

RebaseArgs == {0, 4096, 4100, 8192, 12288, 16384, 20480, 24576}

PrevArgs == (-1)..MaxTrace

-----------------------------------------------------------------------------
(* The state machine *)

Init ==
    /\ \E in \in Inputs :
        /\ instruction_addresses = in.bin
        /\ ip_addrs = in.ips
        /\ segments = in.segs
    /\ remapped_regions = <<>>
    /\ unmapped_entry_points = <<>>
    /\ pc = "new"
    /\ err = "none"
    /\ calls = <<>>
    /\ top_hit = <<>>
    /\ op = "none"
    /\ arg = 0
    /\ result = 0

\* TraceAnalysis(trace, dctx): __init__ runs _analyze, which runs
\* _analyze_aslr and, unless that raised, _analyze_unmapped
Construct ==
    /\ pc = "new"
    /\ LET aslr == analyze_aslr(instruction_addresses, ip_addrs)
       IN /\ top_hit' = aslr.top
          /\ remapped_regions' = aslr.regions
          /\ err' = aslr.raised
          /\ IF aslr.raised # "none"
             THEN /\ pc' = "failed"
                  /\ calls' = <<"_analyze_aslr">>
                  /\ unmapped_entry_points' = <<>>
             ELSE /\ pc' = "ready"
                  /\ calls' = <<"_analyze_aslr", "_analyze_unmapped">>
                  /\ unmapped_entry_points' =
                        analyze_unmapped(segments, ip_addrs, aslr.regions)
    /\ UNCHANGED <<instruction_addresses, ip_addrs, segments, op, arg, result>>

\* analysis.rebase_pointer(address)
RebasePointer ==
    /\ pc = "ready"
    /\ \E address \in RebaseArgs :
        /\ op' = "rebase_pointer"
        /\ arg' = address
        /\ result' = rebase_pointer(remapped_regions, address)
    /\ UNCHANGED <<instruction_addresses, ip_addrs, segments, remapped_regions,
                   unmapped_entry_points, pc, err, calls, top_hit>>

\* analysis.get_prev_mapped_idx(idx)
GetPrevMappedIdx ==
    /\ pc = "ready"
    /\ \E idx \in PrevArgs :
        /\ op' = "get_prev_mapped_idx"
        /\ arg' = idx
        /\ result' = get_prev_mapped_idx(unmapped_entry_points, idx)
    /\ UNCHANGED <<instruction_addresses, ip_addrs, segments, remapped_regions,
                   unmapped_entry_points, pc, err, calls, top_hit>>

Next == Construct \/ RebasePointer \/ GetPrevMappedIdx

Spec == Init /\ [][Next]_vars

-----------------------------------------------------------------------------
(* Vocabulary of the properties *)

InInterval(a, m) == m[1] <= a /\ a <= m[2]

\* the sum of the lengths of the first n segments
RECURSIVE LengthBefore(_, _)
LengthBefore(segs, n) ==
    IF n = 0 THEN 0 ELSE LengthBefore(segs, n - 1) + segs[n].length

\* every segment starts where the preceding ones end, the first at 0
Contiguous(segs) ==
    \A i \in 1..Len(segs) : segs[i].base_idx = LengthBefore(segs, i - 1)

TraceLen == LengthBefore(segments, Len(segments))

\* the compressed ips of all segments, by trace index + 1
Executed == Concat([i \in 1..Len(segments) |-> segments[i].ips])

\* the instruction pointer at trace index g is inside the trace-space region
IsMappedIdx(g) ==
    InInterval(ip_addrs[Executed[g + 1] + 1], remapped_regions[1][2])

\* the greatest element of s that is <= idx, or -1
MaxAtMost(s, idx) ==
    LET below == {x \in Range(s) : x <= idx}
    IN IF below = {} THEN -1 ELSE SetMax(below)

\* number of (trace occurrence, binary address) pairs with equal low bits
\* whose difference binary - trace is d
VoteCount(d) ==
    Cardinality({p \in (1..Len(ip_addrs)) \X (1..Len(instruction_addresses)) :
        /\ LowBits(ip_addrs[p[1]]) = LowBits(instruction_addresses[p[2]])
        /\ instruction_addresses[p[2]] - ip_addrs[p[1]] = d})

Distances ==
    {a - e : a \in Range(instruction_addresses), e \in Range(ip_addrs)}

\* there is nothing to vote with
NoEvidence ==
    \/ instruction_addresses = <<>>
    \/ \A a \in Range(instruction_addresses), e \in Range(ip_addrs) :
            LowBits(a) # LowBits(e)

IsScenarioA == instruction_addresses = ScenarioBin /\ ip_addrs = ScenarioIps

-----------------------------------------------------------------------------
(* Claims *)

\* C1: get_prev_mapped_idx(idx) returns the greatest element of
\* _unmapped_entry_points that is <= idx, and -1 when there is none, also when
\* the list is not empty and idx is below all of it.
\* (Stated for the lists built from contiguous segments, which are ascending.)
C1_PrevIsMaxAtMost ==
    (op = "get_prev_mapped_idx" /\ Contiguous(segments))
        => result = MaxAtMost(unmapped_entry_points, arg)

\* C2: for an address a inside m1, rebasing the rebased address gives a back,
\* whatever the detected slide, also when m1 and m2 overlap.
C2_RebaseRoundTrip ==
    (op = "rebase_pointer" /\ InInterval(arg, remapped_regions[1][1]))
        => rebase_pointer(remapped_regions, result) = arg

\* C3 as stated: without evidence construction fails with InsufficientEvidence;
\* no region is recorded, the unmapped scan does not run, no query is answered.
C3_FailsInsufficientEvidence ==
    (NoEvidence /\ pc # "new")
        => /\ pc = "failed"
           /\ err = "InsufficientEvidence"
           /\ remapped_regions = <<>>
           /\ calls = <<"_analyze_aslr">>
           /\ unmapped_entry_points = <<>>
           /\ op = "none"

\* C3 as amended: without evidence construction fails with the IndexError of
\* hits[0]; no region is recorded, the unmapped scan does not run, no query is
\* answered.
C3_FailsIndexError ==
    (NoEvidence /\ pc # "new")
        => /\ pc = "failed"
           /\ err = "IndexError"
           /\ remapped_regions = <<>>
           /\ calls = <<"_analyze_aslr">>
           /\ unmapped_entry_points = <<>>
           /\ op = "none"

C3_Witness ==
    /\ pc = "failed"
    /\ instruction_addresses # <<>>
    /\ ip_addrs # <<>>

\* C4: with contiguous segments _unmapped_entry_points is strictly ascending
\* and each of its values is a trace index whose instruction pointer is inside
\* the trace-space region m2.
C4_AscendingMapped ==
    (pc = "ready" /\ Contiguous(segments))
        => /\ Ascending(unmapped_entry_points)
           /\ \A e \in Range(unmapped_entry_points) :
                e \in 0..(TraceLen - 1) /\ IsMappedIdx(e)

C4_Witness ==
    /\ pc = "ready"
    /\ Contiguous(segments)
    /\ Len(segments) = 2
    /\ segments[1].length > 0
    /\ segments[2].length > 0
    /\ Len(unmapped_entry_points) >= 2

\* C5 as stated: with segments that are not contiguous construction raises
\* InvalidSegmentLayout and builds no _unmapped_entry_points.
C5_RaisesInvalidSegmentLayout ==
    (pc # "new" /\ ~Contiguous(segments))
        => /\ pc = "failed"
           /\ err = "InvalidSegmentLayout"
           /\ unmapped_entry_points = <<>>

\* C5 as amended: the layout is not validated.  With segments that are not
\* contiguous construction never raises InvalidSegmentLayout; it fails exactly
\* when there is no evidence for a slide, and otherwise completes with entries
\* that are seg.base_idx + relative_idx of a mapped instruction of a segment.
C5_LayoutNotValidated ==
    (pc # "new" /\ ~Contiguous(segments))
        => /\ err # "InvalidSegmentLayout"
           /\ (pc = "failed") <=> NoEvidence
           /\ pc = "ready" =>
                /\ err = "none"
                /\ calls = <<"_analyze_aslr", "_analyze_unmapped">>
                /\ \A e \in Range(unmapped_entry_points) :
                    \E i \in 1..Len(segments) :
                        \E r \in 0..(segments[i].length - 1) :
                            /\ e = segments[i].base_idx + r
                            /\ InInterval(ip_addrs[segments[i].ips[r + 1] + 1],
                                          remapped_regions[1][2])

C5_Witness ==
    /\ pc = "ready"
    /\ ~Contiguous(segments)
    /\ \E e \in Range(unmapped_entry_points) :
            e \in 0..(TraceLen - 1) /\ ~IsMappedIdx(e)

\* C6: rebase_pointer returns an address outside both intervals of every
\* region unchanged, raises nothing, and leaves _remapped_regions and
\* _unmapped_entry_points as they were.
C6_PassThrough ==
    [][(pc = "ready" /\ op' = "rebase_pointer")
        => /\ remapped_regions' = remapped_regions
           /\ unmapped_entry_points' = unmapped_entry_points
           /\ pc' = "ready"
           /\ err' = "none"
           /\ (\A i \in 1..Len(remapped_regions) :
                    /\ ~InInterval(arg', remapped_regions[i][1])
                    /\ ~InInterval(arg', remapped_regions[i][2]))
                => result' = arg']_vars

C6_Witness ==
    /\ op = "rebase_pointer"
    /\ remapped_regions # <<>>
    /\ \A i \in 1..Len(remapped_regions) :
            /\ ~InInterval(arg, remapped_regions[i][1])
            /\ ~InInterval(arg, remapped_regions[i][2])
    /\ result = arg
    /\ remapped_regions[1][1] # remapped_regions[1][2]

\* C7: Scenario A selects slide -0x4000 with support 4 (every pairing
\* occurrence counts) and records m1 = [0x1000, 0x1008], m2 = [0x5000, 0x5008].
C7_ScenarioA ==
    (IsScenarioA /\ pc # "new")
        => /\ pc = "ready"
           /\ top_hit = <<4, -16384>>
           /\ remapped_regions = << << <<4096, 4104>>, <<20480, 20488>> >> >>

C7_Witness == IsScenarioA /\ pc = "ready" /\ op = "none"

\* C8: for a slide of either sign m1 is [min, max] of the binary addresses and
\* m2 is m1 shifted by -slide (trace = binary - slide).
C8_RegionShiftedBySlide ==
    pc = "ready"
        => LET m1 == remapped_regions[1][1]
               m2 == remapped_regions[1][2]
               slide == top_hit[2]
           IN /\ m1[1] = SetMin(Range(instruction_addresses))
              /\ m1[2] = SetMax(Range(instruction_addresses))
              /\ m2[1] = m1[1] - slide
              /\ m2[2] = m1[2] - slide

\* C9: with contiguous segments _unmapped_entry_points holds exactly the
\* trace indexes of the mapped instructions that are immediately followed by
\* an unmapped one, each once.
C9_OneEntryPerExcursion ==
    (pc = "ready" /\ Contiguous(segments))
        => LET expected == {g \in 0..(TraceLen - 2) :
                                IsMappedIdx(g) /\ ~IsMappedIdx(g + 1)}
           IN /\ Range(unmapped_entry_points) = expected
              /\ Len(unmapped_entry_points) = Cardinality(expected)

\* C10: the selected slide has the greatest vote count, where the votes of d
\* are the (trace occurrence, binary address) pairs with equal low 12 bits and
\* binary - trace = d; among the distances with that count it is the largest.
C10_SlideSelection ==
    pc = "ready"
        => /\ top_hit[1] = VoteCount(top_hit[2])
           /\ top_hit[1] > 0
           /\ \A d \in Distances :
                \/ VoteCount(d) < top_hit[1]
                \/ VoteCount(d) = top_hit[1] /\ d <= top_hit[2]

C10_Witness ==
    /\ pc = "ready"
    /\ op = "none"
    /\ \E d \in Distances : d < top_hit[2] /\ VoteCount(d) = top_hit[1]
    /\ \E d \in Distances : d > top_hit[2] /\ VoteCount(d) > 0

====
